---- MODULE Spec2Model ----
(***************************************************************************)
(* DiffDraft (harysuryanto/diff-draft): the commit-message generation      *)
(* workflow of src/src/sidebarProvider.ts, as a state machine.             *)
(*                                                                         *)
(* Two entry points run the same steps: the SCM title bar command          *)
(* (generateCommitMessageForSCM -> generateCommitMessageWithKey, the        *)
(* "toolbar flow") and the sidebar webview's `generate` message            *)
(* (generateCommitMessage, the "panel flow").  Every `await` of the source  *)
(* is a step boundary: what the Git extension, the secret store, the user   *)
(* and the Groq endpoint answer at that point is an input of the step.      *)
(*                                                                         *)
(* Text is a sequence of tokens.  A token is either all whitespace (WS) or  *)
(* begins and ends with a non-whitespace character, so that trimming a      *)
(* sequence of tokens is trimming the text it spells.                       *)
(***************************************************************************)
EXTENDS Integers, Sequences, FiniteSets, TLC

(***************************************************************************)
(* Bounds of the model.                                                    *)
(***************************************************************************)
\* longest change list the Git extension reports
MaxFiles == 2
\* toolbar command invocations that may be in flight at once
MaxToolbar == 2
\* success timers (setTimeout, line 208) that may be pending at once
MaxTimers == 2
\* surfaces (the toolbar command, the sidebar panel) the user works from in a session
MaxSurfaces == 1
\* messages of the webview the extension host has not received yet
MaxQueue == 1

(***************************************************************************)
(* Text.                                                                   *)
(***************************************************************************)
\* JavaScript's undefined, where a string is expected
Undef == <<"<undefined>">>

WS == {" ", "\n"}

RECURSIVE TrimStart(_)
TrimStart(s) ==
  IF s = <<>> THEN <<>>
  ELSE IF Head(s) \in WS THEN TrimStart(Tail(s)) ELSE s

RECURSIVE TrimEnd(_)
TrimEnd(s) ==
  IF s = <<>> THEN <<>>
  ELSE IF s[Len(s)] \in WS THEN TrimEnd(SubSeq(s, 1, Len(s) - 1)) ELSE s

\* String.prototype.trim
Trim(s) == TrimEnd(TrimStart(s))

\* s?.trim()
OptTrim(s) == IF s = Undef THEN Undef ELSE Trim(s)

\* JavaScript truthiness of a string | undefined
Truthy(s) == s # Undef /\ s # <<>>

\* a || b
OrElse(a, b) == IF Truthy(a) THEN a ELSE b

(***************************************************************************)
(* Inputs: what the collaborators may answer.                              *)
(***************************************************************************)
\* the files the Git extension reports, in its order
Files == <<"a.ts", "bin.png", "c.ts">>

Reverse(s) == [k \in 1..Len(s) |-> s[Len(s) + 1 - k]]

\* repo.state.indexChanges: a list of paths
IndexLists == {SubSeq(Files, 1, n) : n \in 0..MaxFiles}

\* repo.state.workingTreeChanges: a list of paths
WorkingLists == {Reverse(SubSeq(Files, 1, n)) : n \in 0..MaxFiles}

\* what vscode.extensions.getExtension / activate / getAPI(1).repositories give
GitStates == {"ok", "noExtension", "activateFails", "noRepositories"}

\* a rejected diff promise
DiffFails == <<"<rejected>">>

\* repo.diffIndexWithHEAD / repo.diffWithHEAD: the diff text ("" for a binary file)
DiffResults == {<<>>, <<"+x">>, DiffFails}

\* process.env.OVERRIDE_MODEL_API_KEY
EnvValues == {Undef, <<" ">>, <<"gsk_env">>}

\* what the user gives to showInputBox (Undef: the prompt is cancelled)
PromptInputs == {Undef, <<>>, <<" ">>, <<"gsk_k">>, <<" ", "gsk_k">>, <<"sk-x">>}

\* what the user types into the panel's API key field
TypedKeys == {<<"gsk_p">>}

\* what the user makes of the panel's commit message field
EditedTexts == {<<" ", "fix: y", "\n">>}

\* the text of a `commit` signal (Undef: the message carries none)
CommitMessages == {Undef, <<>>, <<" ">>, <<" ", "fix: y", "\n">>}

\* repo.commit: TRUE when the promise resolves
CommitResults == BOOLEAN

\* the reason phrase of an HTTP status
StatusText(status) ==
  CASE status = 401 -> "HTTP 401: Unauthorized"
    [] status = 403 -> "HTTP 403: Forbidden"
    [] status = 500 -> "HTTP 500: Internal Server Error"
    [] OTHER        -> "HTTP 200: OK"

\* A response of the endpoint.  net: fetch itself rejects; json: the body parses;
\* hasError / errMsg: the body's error field and its message; content: the body's
\* choices[0].message.content (Undef when any link of the chain is missing).
Resp(net, status, json, hasError, errMsg, content) ==
  [net |-> net, status |-> status, json |-> json, hasError |-> hasError,
   errMsg |-> errMsg, content |-> content]

Responses ==
  { Resp(FALSE, 200, TRUE, FALSE, Undef, <<" ", "feat: add x", "\n">>),
    Resp(FALSE, 200, TRUE, FALSE, Undef, <<" ">>),
    Resp(FALSE, 200, TRUE, FALSE, Undef, Undef),
    Resp(FALSE, 200, TRUE, TRUE, <<"quota">>, <<"feat: add x">>),
    Resp(FALSE, 200, TRUE, TRUE, Undef, Undef),
    Resp(FALSE, 403, TRUE, TRUE, <<"invalid key">>, Undef),
    Resp(FALSE, 401, FALSE, FALSE, Undef, Undef),
    Resp(TRUE, 0, FALSE, FALSE, Undef, Undef) }

(***************************************************************************)
(* The pure parts of the workflow.                                         *)
(***************************************************************************)
\* overrideKey?.trim() ? overrideKey : other   (lines 78 and 240)
ResolveKey(overrideKey, other) ==
  IF Truthy(OptTrim(overrideKey)) THEN overrideKey ELSE other

\* lines 80 and 242: !apiKey
MissingKey(apiKey) == ~Truthy(apiKey)

\* a prompt that takes an empty submission for a key
PromptCancelled_OnlyUndefined(inputKey) == inputKey = Undef

\* line 88: !inputKey
PromptCancelled(inputKey) == ~Truthy(inputKey)

\* a getStoredApiKey that answers with the value it has when the read throws
GetStoredApiKey_IgnoresThrow(value, throws) ==
  IF Truthy(OptTrim(value)) THEN Trim(value) ELSE Undef

\* getStoredApiKey: key?.trim() || undefined, and undefined when the read throws
GetStoredApiKey(value, throws) ==
  IF throws THEN Undef
  ELSE IF Truthy(OptTrim(value)) THEN Trim(value) ELSE Undef

\* storeApiKey: the value of the secret after the call
StoreApiKey(old, key, throws) ==
  IF ~throws /\ Truthy(Trim(key)) THEN Trim(key) ELSE old

\* a selection that prefers the working tree changes
SelectChanges_WorkingFirst(indexChanges, workingTreeChanges) ==
  IF workingTreeChanges = <<>>
    THEN [changes |-> indexChanges, isStaged |-> TRUE]
    ELSE [changes |-> workingTreeChanges, isStaged |-> FALSE]

\* lines 130-136 and 256-263: staged changes first, then working tree changes
SelectChanges(indexChanges, workingTreeChanges) ==
  IF Len(indexChanges) = 0
    THEN [changes |-> workingTreeChanges, isStaged |-> FALSE]
    ELSE [changes |-> indexChanges, isStaged |-> TRUE]

\* a flow without the check for an empty change set
NoChanges_Never(changes) == FALSE

\* lines 138 and 265: changes.length === 0
NoChanges(changes) == Len(changes) = 0

\* lines 167-169 and 280-282: the diff operation of one file
DiffOp(isStaged) == IF isStaged THEN "diffIndexWithHEAD" ELSE "diffWithHEAD"

\* lines 170 and 284: `\n--- File: ${path} ---\n${diff}`
FileBlock(path, diff) == <<"\n", "--- File:", " ", path, " ", "---", "\n">> \o diff

\* an aggregation that puts the latest file first
AppendBlock_Prepend(fullDiff, path, diff) == FileBlock(path, diff) \o fullDiff

\* lines 170 and 284: fullDiff += ...
AppendBlock(fullDiff, path, diff) == fullDiff \o FileBlock(path, diff)

\* lines 177 and 295: !fullDiff.trim()
IsEmptyDiff(fullDiff) == ~Truthy(Trim(fullDiff))

Thrown(msg) == [ok |-> FALSE, value |-> msg]
Returned(text) == [ok |-> TRUE, value |-> text]

\* a callGroq that looks at the generated text before the error field
CallGroq_ContentFirst(r) ==
  IF r.net THEN Thrown(<<"fetch failed">>)
  ELSE IF r.status # 200
    THEN Thrown(IF r.json /\ r.hasError /\ Truthy(r.errMsg)
                  THEN r.errMsg ELSE <<StatusText(r.status)>>)
  ELSE IF ~r.json THEN Thrown(<<"Unexpected end of JSON input">>)
  ELSE IF Truthy(OptTrim(r.content)) THEN Returned(Trim(r.content))
  ELSE IF r.hasError THEN Thrown(OrElse(r.errMsg, <<"API returned an error.">>))
  ELSE Thrown(<<"API returned empty response.">>)

\* a callGroq that returns the content as it came
CallGroq_NoTrim(r) ==
  IF r.net THEN Thrown(<<"fetch failed">>)
  ELSE IF r.status # 200
    THEN Thrown(IF r.json /\ r.hasError /\ Truthy(r.errMsg)
                  THEN r.errMsg ELSE <<StatusText(r.status)>>)
  ELSE IF ~r.json THEN Thrown(<<"Unexpected end of JSON input">>)
  ELSE IF r.hasError THEN Thrown(OrElse(r.errMsg, <<"API returned an error.">>))
  ELSE IF ~Truthy(OptTrim(r.content)) THEN Thrown(<<"API returned empty response.">>)
  ELSE Returned(r.content)

\* callGroq, lines 337-375, from the response on
CallGroq(r) ==
  IF r.net THEN Thrown(<<"fetch failed">>)
  ELSE IF r.status # 200
    THEN Thrown(IF r.json /\ r.hasError /\ Truthy(r.errMsg)
                  THEN r.errMsg ELSE <<StatusText(r.status)>>)
  ELSE IF ~r.json THEN Thrown(<<"Unexpected end of JSON input">>)
  ELSE IF r.hasError THEN Thrown(OrElse(r.errMsg, <<"API returned an error.">>))
  ELSE IF ~Truthy(OptTrim(r.content)) THEN Thrown(<<"API returned empty response.">>)
  ELSE Returned(Trim(r.content))

\* "Groq API Error: " + (error.message || "Unknown error occurred.")
GroqErrorText(msg) == <<"Groq API Error:", " ">> \o OrElse(msg, <<"Unknown error occurred.">>)

\* this._iconIndex = (this._iconIndex + 1) % iconCount
IconCount == 5
NextIcon(i) == (i + 1) % IconCount


(***************************************************************************)
(* State.                                                                  *)
(***************************************************************************)
VARIABLES
  env,            \* process.env.OVERRIDE_MODEL_API_KEY
  secret,         \* the secret store's entry "diffDraft.groqApiKey"
  inputBox,       \* repo.inputBox.value, the provider's commit-message field
  isGenerating,   \* context key diffDraft.isGenerating
  generatingIcon, \* context key diffDraft.generatingIcon
  isSuccess,      \* context key diffDraft.isSuccess
  ctxSet,         \* the context keys setContext was called for so far
  iconIndex,      \* this._iconIndex
  timers,         \* pending setTimeout callbacks of line 208
  tb,             \* the toolbar command's invocations, by slot
  wv,             \* the webview: the elements of the panel's page and its script
  saved,          \* the webview's persisted state (vscode.getState / setState)
  toHost,         \* messages the webview posted, not yet received by the host
  pn,             \* the handler of a `generate` message (generateCommitMessage)
  cm              \* the handler of a `commit` message (commitChanges)

toolbarVars == <<secret, inputBox, isGenerating, generatingIcon, isSuccess, ctxSet,
                 iconIndex, timers, tb>>
panelVars == <<wv, saved, toHost, pn, cm>>
vars == <<env, toolbarVars, panelVars>>

Inv == 1..MaxToolbar

\* no response yet
NoResp == Resp(FALSE, 0, FALSE, FALSE, Undef, Undef)

\* the locals of an invocation, and what it has done so far
Fresh ==
  [pc |-> "idle",
   overrideKey |-> Undef, apiKey |-> Undef, prompted |-> FALSE, input |-> Undef,
   readThrew |-> FALSE, storeThrew |-> FALSE,
   repo |-> FALSE, seenIndex |-> <<>>, seenWorking |-> <<>>,
   changes |-> <<>>, isStaged |-> FALSE, pos |-> 0, fullDiff |-> <<>>, diffs |-> <<>>,
   currentIconIndex |-> 0,
   diffLog |-> <<>>, sent |-> <<>>, resp |-> NoResp, status |-> 0, content |-> Undef,
   shown |-> <<>>, posted |-> <<>>, outcome |-> "none"]

InFlight(r) == r.pc \notin {"idle", "done"}

\* the function is about to return
Returns(r, outcome, shown) == [r EXCEPT !.pc = "return", !.outcome = outcome, !.shown = shown]

\* The invocation returns: its locals are gone; what it told the user stays.
Finish(r) == [Fresh EXCEPT !.pc = "done", !.outcome = r.outcome, !.shown = r.shown]

\* The locals no later line reads are dropped: after the key is resolved ...
AfterKey(r) == [r EXCEPT !.readThrew = FALSE, !.storeThrew = FALSE]

\* ... after the request has been made ...
AfterRequest(r) ==
  [Fresh EXCEPT !.pc = "fetch", !.overrideKey = r.overrideKey, !.apiKey = r.apiKey,
                !.prompted = r.prompted, !.posted = r.posted]

\* ... and after the endpoint has answered or the diffs could not be used.
AfterTry(r) ==
  [Fresh EXCEPT !.pc = r.pc, !.outcome = r.outcome, !.shown = r.shown,
                !.resp = r.resp, !.status = r.status, !.content = r.content]

\* the page before resolveWebviewView: lines 502-514
NoView ==
  [resolved |-> FALSE, isOverrideActive |-> FALSE, apiKey |-> <<>>, result |-> <<>>,
   commitDisabled |-> TRUE, generateDisabled |-> FALSE, loader |-> FALSE]

\* vscode.getState() before any setState
NoState == [set |-> FALSE, apiKey |-> Undef, result |-> Undef]

\* the locals of commitChanges, and the calls of repo.commit it made
FreshCommit ==
  [pc |-> "idle", message |-> Undef, repo |-> FALSE, seenIndex |-> <<>>,
   committed |-> <<>>, shown |-> <<>>, posted |-> <<>>, outcome |-> "none"]

\* the surfaces used so far in the session
ToolbarUsed == \E i \in Inv : tb[i].pc # "idle"
PanelUsed == wv.resolved
SurfacesUsed == (IF ToolbarUsed THEN 1 ELSE 0) + (IF PanelUsed THEN 1 ELSE 0)

\* The command was triggered again before an earlier invocation had returned.
Raced == \E i \in Inv : i > 1 /\ tb[i].pc # "idle"

\* What a collaborator may answer: anything in `all`; in a session with overlapping
\* invocations the answers looked at are narrowed to `few`.
Answers(all, few) == IF Raced THEN few ELSE all

\* No handler runs.  What a handler does not read while it runs changes only
\* between runs: the change would commute with every step of the run.
Quiet == ~InFlight(pn) /\ ~InFlight(cm) /\ \A i \in Inv : ~InFlight(tb[i])

\* A handler awaits the endpoint or the commit: where the user has time to act.
Waiting == pn.pc = "fetch" \/ cm.pc = "commit"

Init ==
  /\ env \in EnvValues
  /\ secret = Undef
  /\ inputBox = <<>>
  /\ isGenerating = FALSE
  /\ generatingIcon = -1
  /\ isSuccess = FALSE
  /\ ctxSet = {}
  /\ iconIndex = 0
  /\ timers = 0
  /\ tb = [i \in Inv |-> Fresh]
  /\ wv = NoView
  /\ saved = NoState
  /\ toHost = <<>>
  /\ pn = Fresh
  /\ cm = FreshCommit

(***************************************************************************)
(* The environment variable changes (another extension of the host, or     *)
(* dotenv at activation, sets it).                                         *)
(***************************************************************************)
SetEnv ==
  /\ Quiet
  /\ \E v \in EnvValues \ {env} : env' = v
  /\ UNCHANGED <<toolbarVars, panelVars>>

(***************************************************************************)
(* Toolbar flow: generateCommitMessageForSCM, lines 75-101.                *)
(***************************************************************************)
\* line 76: the override is read when the command runs
ReadOverride(current) == current

\* The command is run; lines 76-77 up to the await of the secret store.  Nothing in
\* the source keeps the command from running again before an earlier invocation has
\* returned.  Overlapping invocations are looked at where the command is triggered
\* again and again at the outset of a session, each time before the invocation
\* before it has heard from the secret store.
TbStart(i) ==
  /\ ~InFlight(tb[i])
  /\ ~Raced
  /\ \A j \in Inv : j < i => tb[j].pc = "getStoredApiKey"
  /\ i > 1 => /\ \A j \in Inv : j >= i => tb[j].pc = "idle"
              /\ secret = Undef /\ inputBox = <<>> /\ ctxSet = {} /\ iconIndex = 0
  /\ ToolbarUsed \/ SurfacesUsed < MaxSurfaces
  /\ timers + Cardinality({j \in Inv : InFlight(tb[j])}) < MaxTimers
  /\ tb' = [tb EXCEPT ![i] = [Fresh EXCEPT !.pc = "getStoredApiKey",
                                           !.overrideKey = ReadOverride(env)]]
  /\ UNCHANGED <<panelVars, env, secret, inputBox, isGenerating, generatingIcon, isSuccess,
                 ctxSet, iconIndex, timers>>

\* a key resolution that copies a usable override into the secret store
TbGetStoredApiKey_WritesBack(i) ==
  /\ tb[i].pc = "getStoredApiKey"
  /\ \E throws \in Answers(BOOLEAN, {FALSE}) :
       LET storedKey == GetStoredApiKey(secret, throws)
           apiKey == ResolveKey(tb[i].overrideKey, storedKey)
       IN  tb' = [tb EXCEPT ![i] =
                    IF MissingKey(apiKey)
                      THEN [@ EXCEPT !.pc = "showInputBox", !.prompted = TRUE,
                                     !.readThrew = throws]
                      ELSE [@ EXCEPT !.pc = "getRepo", !.apiKey = apiKey,
                                     !.readThrew = throws]]
  /\ secret' = IF Truthy(OptTrim(tb[i].overrideKey)) THEN Trim(tb[i].overrideKey) ELSE secret
  /\ UNCHANGED <<panelVars, env, inputBox, isGenerating, generatingIcon, isSuccess,
                 ctxSet, iconIndex, timers>>

\* lines 77-80 and 100: the secret store answers; the key is resolved
TbGetStoredApiKey(i) ==
  /\ tb[i].pc = "getStoredApiKey"
  /\ \E throws \in Answers(BOOLEAN, {FALSE}) :
       LET storedKey == GetStoredApiKey(secret, throws)
           apiKey == ResolveKey(tb[i].overrideKey, storedKey)
       IN  tb' = [tb EXCEPT ![i] =
                    IF MissingKey(apiKey)
                      THEN [@ EXCEPT !.pc = "showInputBox", !.prompted = TRUE,
                                     !.readThrew = throws]
                      ELSE [@ EXCEPT !.pc = "getRepo", !.apiKey = apiKey,
                                     !.readThrew = throws]]
  /\ UNCHANGED <<panelVars, env, secret, inputBox, isGenerating, generatingIcon, isSuccess,
                 ctxSet, iconIndex, timers>>

\* lines 81-93: the user answers the prompt
TbShowInputBox(i) ==
  /\ tb[i].pc = "showInputBox"
  /\ \E inputKey \in Answers(PromptInputs, {<<"gsk_k">>}) :
       tb' = [tb EXCEPT ![i] =
                IF PromptCancelled(inputKey)
                  THEN Returns([@ EXCEPT !.input = inputKey], "Cancelled",
                               <<"API key is required to generate commit message.">>)
                  ELSE [@ EXCEPT !.pc = "storeApiKey", !.input = inputKey,
                                 !.apiKey = inputKey]]
  /\ UNCHANGED <<panelVars, env, secret, inputBox, isGenerating, generatingIcon, isSuccess,
                 ctxSet, iconIndex, timers>>

\* lines 96-97 and 112-121: the key is stored, then generation goes on with it
TbStoreApiKey(i) ==
  /\ tb[i].pc = "storeApiKey"
  /\ \E throws \in Answers(BOOLEAN, {FALSE}) :
       /\ secret' = StoreApiKey(secret, tb[i].apiKey, throws)
       /\ tb' = [tb EXCEPT ![i] = [@ EXCEPT !.pc = "getRepo", !.storeThrew = throws]]
  /\ UNCHANGED <<panelVars, env, inputBox, isGenerating, generatingIcon, isSuccess,
                 ctxSet, iconIndex, timers>>

(***************************************************************************)
(* generateCommitMessageWithKey, lines 123-236.                            *)
(***************************************************************************)
GetRepoError(git) ==
  CASE git = "noExtension"   -> <<"Git extension not found.">>
    [] git = "activateFails" -> <<"Failed to activate Git extension.">>
    [] OTHER -> <<"No Git repository found. Please open a folder with a Git repository.">>

\* lines 124-148: getRepo answers, the change set is selected, the icon rotates
TbGetRepo(i) ==
  /\ tb[i].pc = "getRepo"
  /\ \E git \in Answers(GitStates, {"ok"}),
        indexChanges \in Answers(IndexLists, {<<Files[1]>>}),
        workingTreeChanges \in Answers(WorkingLists, {<<>>}) :
       LET sel == SelectChanges(indexChanges, workingTreeChanges) IN
       IF git # "ok"
         THEN /\ tb' = [tb EXCEPT ![i] = Returns(@, "NoRepo", GetRepoError(git))]
              /\ UNCHANGED iconIndex
       ELSE IF NoChanges(sel.changes)
         THEN /\ tb' = [tb EXCEPT ![i] =
                          Returns([@ EXCEPT !.repo = TRUE, !.seenIndex = indexChanges,
                                            !.seenWorking = workingTreeChanges],
                                  "NoChanges",
                                  <<"No changes detected (staged or working tree).">>)]
              /\ UNCHANGED iconIndex
       ELSE /\ tb' = [tb EXCEPT ![i] =
                        [AfterKey(@) EXCEPT !.pc = "setGenerating",
                                  !.repo = TRUE,
                                  !.seenIndex = indexChanges,
                                  !.seenWorking = workingTreeChanges,
                                  !.changes = sel.changes, !.isStaged = sel.isStaged,
                                  !.currentIconIndex = iconIndex]]
            /\ iconIndex' = NextIcon(iconIndex)
  /\ UNCHANGED <<panelVars, env, secret, inputBox, isGenerating, generatingIcon, isSuccess,
                 ctxSet, timers>>

\* the returns of lines 92, 126 and 142
TbReturn(i) ==
  /\ tb[i].pc = "return"
  /\ tb' = [tb EXCEPT ![i] = Finish(@)]
  /\ UNCHANGED <<panelVars, env, secret, inputBox, isGenerating, generatingIcon, isSuccess,
                 ctxSet, iconIndex, timers>>

\* a start of generation that empties the commit-message field, as the page does
TbSetGenerating_ClearsField(i) ==
  /\ tb[i].pc = "setGenerating"
  /\ isGenerating' = TRUE
  /\ ctxSet' = ctxSet \cup {"isGenerating"}
  /\ inputBox' = <<>>
  /\ tb' = [tb EXCEPT ![i] = [@ EXCEPT !.pc = "setIcon"]]
  /\ UNCHANGED <<panelVars, env, secret, generatingIcon, isSuccess, iconIndex, timers>>

\* lines 151-155
TbSetGenerating(i) ==
  /\ tb[i].pc = "setGenerating"
  /\ isGenerating' = TRUE
  /\ ctxSet' = ctxSet \cup {"isGenerating"}
  /\ tb' = [tb EXCEPT ![i] = [@ EXCEPT !.pc = "setIcon"]]
  /\ UNCHANGED <<panelVars, env, secret, inputBox, generatingIcon, isSuccess, iconIndex, timers>>

\* lines 156-160; the loop of line 166 is entered
TbSetIcon(i) ==
  /\ tb[i].pc = "setIcon"
  /\ generatingIcon' = tb[i].currentIconIndex
  /\ ctxSet' = ctxSet \cup {"generatingIcon"}
  /\ tb' = [tb EXCEPT ![i] = [@ EXCEPT !.pc = "diff", !.pos = 1]]
  /\ UNCHANGED <<panelVars, env, secret, inputBox, isGenerating, isSuccess, iconIndex, timers>>

\* DiffStep with a loop that skips a file whose diff cannot be read
DiffStep_BestEffort(r, d) ==
  LET path == r.changes[r.pos]
      logged == [r EXCEPT !.diffLog = Append(@, [op |-> DiffOp(r.isStaged), path |-> path]),
                          !.diffs = Append(@, d)]
      fullDiff == IF d = DiffFails THEN r.fullDiff ELSE AppendBlock(r.fullDiff, path, d)
  IN  IF r.pos < Len(r.changes)
        THEN [logged EXCEPT !.pos = @ + 1, !.fullDiff = fullDiff]
      ELSE IF IsEmptyDiff(fullDiff)
        THEN [logged EXCEPT !.pc = "finally", !.outcome = "EmptyDiff", !.fullDiff = fullDiff,
                            !.shown = <<"No text diff available. Changes may be binary files only.">>]
      ELSE [logged EXCEPT !.pc = "request", !.fullDiff = fullDiff,
                          !.sent = <<[key |-> r.apiKey, diff |-> fullDiff]>>]

\* One turn of the loop of lines 166-171 (the diff of changes[pos] is asked for and
\* answered), the catch of lines 172-175, and after the last turn the check of
\* lines 177-182 and the request of line 186.
DiffStep(r, d) ==
  LET path == r.changes[r.pos]
      logged == [r EXCEPT !.diffLog = Append(@, [op |-> DiffOp(r.isStaged), path |-> path]),
                          !.diffs = Append(@, d)]
      fullDiff == AppendBlock(r.fullDiff, path, d)
  IN  IF d = DiffFails
        THEN [logged EXCEPT !.pc = "finally", !.outcome = "DiffReadFailure",
                            !.shown = <<"Error reading git diffs.">>]
      ELSE IF r.pos < Len(r.changes)
        THEN [logged EXCEPT !.pos = @ + 1, !.fullDiff = fullDiff]
      ELSE IF IsEmptyDiff(fullDiff)
        THEN [logged EXCEPT !.pc = "finally", !.outcome = "EmptyDiff", !.fullDiff = fullDiff,
                            !.shown = <<"No text diff available. Changes may be binary files only.">>]
      ELSE [logged EXCEPT !.pc = "request", !.fullDiff = fullDiff,
                          !.sent = <<[key |-> r.apiKey, diff |-> fullDiff]>>]

TbDiff(i) ==
  /\ tb[i].pc = "diff"
  /\ \E d \in Answers(DiffResults, {<<"+x">>}) : tb' = [tb EXCEPT ![i] = DiffStep(@, d)]
  /\ UNCHANGED <<panelVars, env, secret, inputBox, isGenerating, generatingIcon, isSuccess,
                 ctxSet, iconIndex, timers>>

\* line 186 and lines 337-348: the request is on its way
TbRequest(i) ==
  /\ tb[i].pc = "request"
  /\ tb' = [tb EXCEPT ![i] = AfterRequest(@)]
  /\ UNCHANGED <<panelVars, env, secret, inputBox, isGenerating, generatingIcon, isSuccess,
                 ctxSet, iconIndex, timers>>

\* lines 186-188 and 217-221: the endpoint answers
TbFetch(i) ==
  /\ tb[i].pc = "fetch"
  /\ \E resp \in Answers(Responses,
                           {r \in Responses : r.status = 401 \/ CallGroq(r).ok}) :
       LET result == CallGroq(resp) IN
       IF result.ok
         THEN /\ inputBox' = result.value
              /\ tb' = [tb EXCEPT ![i] = AfterTry([@ EXCEPT !.pc = "successGenerating",
                                                            !.resp = resp,
                                                            !.status = resp.status,
                                                            !.content = resp.content,
                                                            !.outcome = "Success"])]
         ELSE /\ tb' = [tb EXCEPT ![i] = AfterTry([@ EXCEPT !.pc = "finally",
                                                            !.resp = resp,
                                                            !.status = resp.status,
                                                            !.content = resp.content,
                                                            !.outcome = "RemoteError",
                                                            !.shown = GroqErrorText(result.value)])]
              /\ UNCHANGED inputBox
  /\ UNCHANGED <<panelVars, env, secret, isGenerating, generatingIcon, isSuccess,
                 ctxSet, iconIndex, timers>>

\* lines 191-195
TbSuccessGenerating(i) ==
  /\ tb[i].pc = "successGenerating"
  /\ isGenerating' = FALSE
  /\ ctxSet' = ctxSet \cup {"isGenerating"}
  /\ tb' = [tb EXCEPT ![i] = [@ EXCEPT !.pc = "successIcon"]]
  /\ UNCHANGED <<panelVars, env, secret, inputBox, generatingIcon, isSuccess, iconIndex, timers>>

\* lines 196-200
TbSuccessIcon(i) ==
  /\ tb[i].pc = "successIcon"
  /\ generatingIcon' = -1
  /\ ctxSet' = ctxSet \cup {"generatingIcon"}
  /\ tb' = [tb EXCEPT ![i] = [@ EXCEPT !.pc = "successFlag"]]
  /\ UNCHANGED <<panelVars, env, secret, inputBox, isGenerating, isSuccess, iconIndex, timers>>

\* lines 201-216: the success flag is set and the timer started; the return of
\* line 216 leaves the try block, so the finally block of line 222 runs next
TbSuccessFlag(i) ==
  /\ tb[i].pc = "successFlag"
  /\ isSuccess' = TRUE
  /\ ctxSet' = ctxSet \cup {"isSuccess"}
  /\ timers' = timers + 1
  /\ tb' = [tb EXCEPT ![i] = [@ EXCEPT !.pc = "finally"]]
  /\ UNCHANGED <<panelVars, env, secret, inputBox, isGenerating, generatingIcon, iconIndex>>

\* a finally block that leaves the generating flag as it is
TbFinally_NoReset(i) ==
  /\ tb[i].pc = "finally"
  /\ tb' = [tb EXCEPT ![i] = AfterTry([@ EXCEPT !.pc = "finallyIcon"])]
  /\ UNCHANGED <<panelVars, env, secret, inputBox, isGenerating, generatingIcon, isSuccess,
                 ctxSet, iconIndex, timers>>

\* lines 222-229
TbFinally(i) ==
  /\ tb[i].pc = "finally"
  /\ isGenerating' = FALSE
  /\ ctxSet' = ctxSet \cup {"isGenerating"}
  /\ tb' = [tb EXCEPT ![i] = AfterTry([@ EXCEPT !.pc = "finallyIcon"])]
  /\ UNCHANGED <<panelVars, env, secret, inputBox, generatingIcon, isSuccess, iconIndex, timers>>

\* lines 230-235
TbFinallyIcon(i) ==
  /\ tb[i].pc = "finallyIcon"
  /\ generatingIcon' = -1
  /\ ctxSet' = ctxSet \cup {"generatingIcon"}
  /\ tb' = [tb EXCEPT ![i] = Finish(@)]
  /\ UNCHANGED <<panelVars, env, secret, inputBox, isGenerating, isSuccess, iconIndex, timers>>

\* lines 208-214: a success timer fires
SuccessTimer ==
  /\ timers > 0
  /\ timers' = timers - 1
  /\ isSuccess' = FALSE
  /\ ctxSet' = ctxSet \cup {"isSuccess"}
  /\ UNCHANGED <<panelVars, env, secret, inputBox, isGenerating, generatingIcon, iconIndex, tb>>

(***************************************************************************)
(* The panel's page: the script of lines 517-619.                          *)
(***************************************************************************)
\* lines 526-528: the flag is written into the page when the page is built
OverrideFlag(current) == Truthy(OptTrim(current))

\* lines 530-552: the script starts, with the persisted state st
ScriptInit(active, st) ==
  LET restore == st.set /\ Truthy(st.result) IN
  [resolved |-> TRUE,
   isOverrideActive |-> active,
   apiKey |-> IF st.set /\ Truthy(st.apiKey) THEN st.apiKey
              ELSE IF active THEN <<"__OVERRIDE__">> ELSE <<>>,
   result |-> IF restore THEN st.result ELSE <<>>,
   commitDisabled |-> IF restore THEN Len(Trim(st.result)) = 0 ELSE TRUE,
   generateDisabled |-> FALSE,
   loader |-> FALSE]

\* vscode.setState({ ...state, [field]: value })
SetState(st, field, value) == [st EXCEPT !.set = TRUE, ![field] = value]

\* a page whose `success` handler leaves the draft in place
OnMessage_KeepsDraft(v, st, m) ==
  CASE m.type = "result" ->
         [wv |-> [v EXCEPT !.generateDisabled = FALSE, !.loader = FALSE,
                           !.result = m.value, !.commitDisabled = FALSE],
          saved |-> SetState(st, "result", m.value)]
    [] m.type = "error" ->
         [wv |-> [v EXCEPT !.generateDisabled = FALSE, !.loader = FALSE,
                           !.result = <<"Error:", " ">> \o m.value,
                           !.commitDisabled = TRUE],
          saved |-> st]
    [] m.type = "success" ->
         [wv |-> v, saved |-> st]
    [] OTHER ->
         [wv |-> [v EXCEPT !.loader = TRUE], saved |-> st]

\* lines 587-618: the page receives a message of the host
OnMessage(v, st, m) ==
  CASE m.type = "result" ->
         [wv |-> [v EXCEPT !.generateDisabled = FALSE, !.loader = FALSE,
                           !.result = m.value, !.commitDisabled = FALSE],
          saved |-> SetState(st, "result", m.value)]
    [] m.type = "error" ->
         [wv |-> [v EXCEPT !.generateDisabled = FALSE, !.loader = FALSE,
                           !.result = <<"Error:", " ">> \o m.value,
                           !.commitDisabled = TRUE],
          saved |-> st]
    [] m.type = "success" ->
         [wv |-> [v EXCEPT !.result = <<>>, !.commitDisabled = TRUE],
          saved |-> SetState(st, "result", <<>>)]
    [] OTHER ->
         [wv |-> [v EXCEPT !.loader = TRUE], saved |-> st]

Msg(type, value) == [type |-> type, value |-> value]

\* resolveWebviewView, lines 15-36: the page is built and its script starts
ResolveView ==
  /\ PanelUsed \/ SurfacesUsed < MaxSurfaces
  /\ Quiet \/ Waiting
  /\ Len(toHost) < MaxQueue
  /\ wv' = ScriptInit(OverrideFlag(env), saved)
  /\ UNCHANGED <<env, toolbarVars, saved, toHost, pn, cm>>

\* lines 554-557: the user types into the API key field (hidden under an override)
TypeKey ==
  /\ wv.resolved /\ ~wv.isOverrideActive
  /\ Quiet
  /\ Len(toHost) < MaxQueue
  /\ \E v \in TypedKeys \ {wv.apiKey} :
       /\ wv' = [wv EXCEPT !.apiKey = v]
       /\ saved' = SetState(saved, "apiKey", v)
  /\ UNCHANGED <<env, toolbarVars, toHost, pn, cm>>

\* lines 560-566: the user edits the commit message field
EditResult ==
  /\ wv.resolved
  /\ Quiet \/ Waiting
  /\ Len(toHost) < MaxQueue
  /\ \E v \in (EditedTexts \cup {<<>>}) \ {wv.result} :
       /\ wv' = [wv EXCEPT !.result = v, !.commitDisabled = (Len(Trim(v)) = 0)]
       /\ saved' = SetState(saved, "result", v)
  /\ UNCHANGED <<env, toolbarVars, toHost, pn, cm>>

\* lines 568-581: the Generate button is clicked
ClickGenerate ==
  /\ wv.resolved /\ ~wv.generateDisabled
  /\ Len(toHost) < MaxQueue
  /\ IF ~Truthy(wv.apiKey) /\ ~wv.isOverrideActive
       THEN /\ wv' = [wv EXCEPT !.result = <<"Please enter an API Key first.">>]
            /\ UNCHANGED toHost
       ELSE /\ wv' = [wv EXCEPT !.generateDisabled = TRUE, !.loader = TRUE,
                                !.result = <<>>, !.commitDisabled = TRUE]
            /\ toHost' = Append(toHost, Msg("generate", wv.apiKey))
  /\ UNCHANGED <<env, toolbarVars, saved, pn, cm>>

\* lines 583-585: the Commit button is clicked
ClickCommit ==
  /\ wv.resolved /\ ~wv.commitDisabled
  /\ Len(toHost) < MaxQueue
  /\ toHost' = Append(toHost, Msg("commit", wv.result))
  /\ UNCHANGED <<env, toolbarVars, wv, saved, pn, cm>>

\* A `commit` message with a text the buttons of the page never send: the host
\* takes whatever the webview posts (lines 26-35) and validates it (line 380).
CommitSignal ==
  /\ wv.resolved
  /\ Len(toHost) < MaxQueue
  /\ \E m \in CommitMessages : toHost' = Append(toHost, Msg("commit", m))
  /\ UNCHANGED <<env, toolbarVars, wv, saved, pn, cm>>

(***************************************************************************)
(* Panel flow: generateCommitMessage, lines 238-314.                       *)
(***************************************************************************)
\* this._view?.webview.postMessage(m), and the page's handling of m
Posts(r, m) ==
  /\ wv' = OnMessage(wv, saved, m).wv
  /\ saved' = OnMessage(wv, saved, m).saved
  /\ pn' = [r EXCEPT !.posted = Append(@, m.type)]


\* lines 26-30 and 239-250: a `generate` message arrives; the key is resolved
PnStart ==
  /\ ~InFlight(pn) /\ ~InFlight(cm)
  /\ toHost # <<>> /\ Head(toHost).type = "generate"
  /\ toHost' = Tail(toHost)
  /\ LET overrideKey == ReadOverride(env)
         finalApiKey == ResolveKey(overrideKey, Head(toHost).value)
     IN  IF MissingKey(finalApiKey)
           THEN Posts(Returns([Fresh EXCEPT !.overrideKey = overrideKey],
                              "MissingCredential", <<"Please enter a Groq API Key.">>),
                      Msg("error", <<"Please enter a Groq API Key.">>))
           ELSE /\ pn' = [Fresh EXCEPT !.pc = "getRepo", !.overrideKey = overrideKey,
                                       !.apiKey = finalApiKey]
                /\ UNCHANGED <<wv, saved>>
  /\ UNCHANGED <<env, toolbarVars, cm>>

\* lines 250-273: getRepo answers, the change set is selected
PnGetRepo ==
  /\ pn.pc = "getRepo"
  /\ \E git \in GitStates, indexChanges \in IndexLists, workingTreeChanges \in WorkingLists :
       LET sel == SelectChanges(indexChanges, workingTreeChanges)
           none == <<"No changes detected (staged or working tree).">>
       IN
       IF git # "ok"
         THEN /\ pn' = Returns(pn, "NoRepo", GetRepoError(git))
              /\ UNCHANGED <<wv, saved>>
       ELSE IF NoChanges(sel.changes)
         THEN Posts(Returns([pn EXCEPT !.repo = TRUE, !.seenIndex = indexChanges,
                                       !.seenWorking = workingTreeChanges],
                            "NoChanges", none),
                    Msg("error", none))
       ELSE Posts([pn EXCEPT !.pc = "diff", !.pos = 1,
                             !.repo = TRUE,
                             !.seenIndex = indexChanges,
                             !.seenWorking = workingTreeChanges,
                             !.changes = sel.changes, !.isStaged = sel.isStaged],
                  Msg("loading", <<>>))
  /\ UNCHANGED <<env, toolbarVars, toHost, cm>>

\* lines 276-305: one turn of the loop, its catch, the check of the aggregate
PnDiff ==
  /\ pn.pc = "diff"
  /\ \E d \in DiffResults :
       LET r == DiffStep(pn, d) IN
       IF r.pc = "finally"
         THEN Posts([r EXCEPT !.pc = "return"], Msg("error", r.shown))
         ELSE /\ pn' = r
              /\ UNCHANGED <<wv, saved>>
  /\ UNCHANGED <<env, toolbarVars, toHost, cm>>

\* the handler returns
PnReturn ==
  /\ pn.pc = "return"
  /\ pn' = Fresh
  /\ UNCHANGED <<env, toolbarVars, wv, saved, toHost, cm>>

\* line 305 and lines 337-348: the request is on its way
PnRequest ==
  /\ pn.pc = "request"
  /\ pn' = AfterRequest(pn)
  /\ UNCHANGED <<env, toolbarVars, wv, saved, toHost, cm>>

\* lines 305-313: the endpoint answers
PnFetch ==
  /\ pn.pc = "fetch"
  /\ \E resp \in Responses :
       LET result == CallGroq(resp) IN
       IF result.ok
         THEN Posts(Returns([pn EXCEPT !.resp = resp, !.status = resp.status,
                                       !.content = resp.content],
                            "Success", <<>>),
                    Msg("result", result.value))
         ELSE Posts(Returns([pn EXCEPT !.resp = resp, !.status = resp.status,
                                       !.content = resp.content],
                            "RemoteError", GroqErrorText(result.value)),
                    Msg("error", GroqErrorText(result.value)))
  /\ UNCHANGED <<env, toolbarVars, toHost, cm>>

(***************************************************************************)
(* Commit step: commitChanges, lines 378-407.                              *)
(***************************************************************************)
\* a validation that does not trim
IsBlank_NoTrim(message) == ~Truthy(message)

\* line 380: !message || !message.trim()
IsBlank(message) == ~Truthy(message) \/ ~Truthy(Trim(message))

\* line 391: !repo.state.indexChanges || repo.state.indexChanges.length === 0
NothingStaged(indexChanges) == Len(indexChanges) = 0

\* line 399: the argument of repo.commit
CommitArgument(message) == Trim(message)


\* lines 26-33 and 379-385: a `commit` message arrives and is validated
CmStart ==
  /\ ~InFlight(cm) /\ ~InFlight(pn)
  /\ toHost # <<>> /\ Head(toHost).type = "commit"
  /\ toHost' = Tail(toHost)
  /\ LET r == [FreshCommit EXCEPT !.message = Head(toHost).value] IN
     cm' = IF IsBlank(r.message)
             THEN Returns(r, "EmptyMessage", <<"Commit message cannot be empty.">>)
             ELSE [r EXCEPT !.pc = "getRepo"]
  /\ UNCHANGED <<env, toolbarVars, wv, saved, pn>>

\* lines 385-399: getRepo answers; with staged changes repo.commit is called
CmGetRepo ==
  /\ cm.pc = "getRepo"
  /\ \E git \in GitStates, indexChanges \in IndexLists :
       cm' = IF git # "ok" THEN Returns(cm, "NoRepo", GetRepoError(git))
             ELSE IF NothingStaged(indexChanges)
               THEN Returns([cm EXCEPT !.repo = TRUE, !.seenIndex = indexChanges],
                      "NothingStaged",
                      <<"No staged changes to commit. Please stage your changes first.">>)
             ELSE [cm EXCEPT !.pc = "commit", !.repo = TRUE, !.seenIndex = indexChanges,
                             !.committed = Append(@, CommitArgument(cm.message))]
  /\ UNCHANGED <<env, toolbarVars, wv, saved, toHost, pn>>

\* lines 399-406: repo.commit answers
CmCommit ==
  /\ cm.pc = "commit"
  /\ \E ok \in CommitResults :
       IF ok
         THEN /\ cm' = [Returns(cm, "Committed", <<"Commit successful!">>)
                          EXCEPT !.posted = Append(@, "success")]
              /\ wv' = OnMessage(wv, saved, Msg("success", <<>>)).wv
              /\ saved' = OnMessage(wv, saved, Msg("success", <<>>)).saved
         ELSE /\ cm' = Returns(cm, "CommitFailure", <<"Commit failed:", " ", "rejected">>)
              /\ UNCHANGED <<wv, saved>>
  /\ UNCHANGED <<env, toolbarVars, toHost, pn>>

\* the handler returns
CmReturn ==
  /\ cm.pc = "return"
  /\ cm' = FreshCommit
  /\ UNCHANGED <<env, toolbarVars, wv, saved, toHost, pn>>

\* an await of invocation i returns and the invocation runs to its next await
TbResume(i) ==
    \/ TbGetStoredApiKey(i)
    \/ TbShowInputBox(i)
    \/ TbStoreApiKey(i)
    \/ TbGetRepo(i)
    \/ TbReturn(i)
    \/ TbSetGenerating(i)
    \/ TbSetIcon(i)
    \/ TbDiff(i)
    \/ TbRequest(i)
    \/ TbFetch(i)
    \/ TbSuccessGenerating(i)
    \/ TbSuccessIcon(i)
    \/ TbSuccessFlag(i)
    \/ TbFinally(i)
    \/ TbFinallyIcon(i)

Toolbar == \E i \in Inv : TbStart(i) \/ TbResume(i)

Page ==
  \/ ResolveView
  \/ TypeKey
  \/ EditResult
  \/ ClickGenerate
  \/ ClickCommit
  \/ CommitSignal

Panel ==
  \/ PnStart
  \/ PnGetRepo
  \/ PnDiff
  \/ PnRequest
  \/ PnReturn
  \/ PnFetch

Commit ==
  \/ CmStart
  \/ CmGetRepo
  \/ CmCommit
  \/ CmReturn

Next ==
  \/ SetEnv
  \/ Toolbar
  \/ SuccessTimer
  \/ Page
  \/ Panel
  \/ Commit

Spec == Init /\ [][Next]_vars

\* the toolbar flow on its own
ToolbarNext ==
  \/ SetEnv
  \/ Toolbar
  \/ SuccessTimer

\* Every awaited call of a toolbar invocation returns, and a pending timer fires.
LiveSpec ==
  /\ Init
  /\ [][ToolbarNext]_vars
  /\ \A i \in Inv : WF_vars(TbResume(i))
  /\ WF_vars(SuccessTimer)

(***************************************************************************)
(* Properties.                                                             *)
(***************************************************************************)
\* the invocations of both flows
Invocations == {tb[i] : i \in Inv} \cup {pn}

\* the pcs of the toolbar flow before the change set is selected
BeforeSelection == {"idle", "done", "getStoredApiKey", "showInputBox", "storeApiKey",
                    "getRepo", "return"}

\* C1: in both flows the change set is the staged list whenever that list is
\* non-empty, whatever the working-tree list holds, and then every diff is asked for
\* with the staged-against-HEAD operation; only with an empty staged list is it the
\* working-tree list, with the working-tree-against-HEAD operation; the diffs are asked
\* for the files of the change set in its order, and the operations are never mixed.
C1_StagedPriority ==
  \A r \in Invocations :
    /\ r.repo /\ r.changes = <<>> => r.seenIndex = <<>> /\ r.seenWorking = <<>>
    /\ r.changes # <<>> =>
         /\ r.isStaged = (r.seenIndex # <<>>)
         /\ r.changes = IF r.seenIndex # <<>> THEN r.seenIndex ELSE r.seenWorking
         /\ Len(r.diffLog) <= Len(r.changes)
         /\ \A k \in 1..Len(r.diffLog) :
              /\ r.diffLog[k].path = r.changes[k]
              /\ r.diffLog[k].op = IF r.seenIndex # <<>> THEN "diffIndexWithHEAD"
                                                         ELSE "diffWithHEAD"

\* C1: staged [a.ts] wins over working tree [bin.png, a.ts]; the one diff was asked for
\* with diffIndexWithHEAD and the request is about to be made
C1_Witness ==
  \E i \in Inv :
    /\ tb[i].pc = "request"
    /\ tb[i].seenIndex = <<"a.ts">>
    /\ tb[i].seenWorking = <<"bin.png", "a.ts">>
    /\ tb[i].diffLog = <<[op |-> "diffIndexWithHEAD", path |-> "a.ts"]>>

\* what an invocation of either flow does when the provider answers with two empty lists
C2_Refused(r, r2) ==
  (r.pc = "getRepo" /\ r2.repo /\ r2.seenIndex = <<>> /\ r2.seenWorking = <<>>) =>
    /\ r2.pc = "return"
    /\ r2.outcome = "NoChanges"
    /\ r2.shown = <<"No changes detected (staged or working tree).">>
    /\ r2.diffLog = <<>>
    /\ r2.sent = <<>>

\* C2: when the staged list and the working-tree list are both empty, an invocation of
\* either flow reports the no-changes error and returns with no diff call and no remote
\* call made; the panel flow posts the error; the toolbar flow sets the generating flag
\* in none of its steps up to there and leaves the commit-message field as it was.
C2_NoChanges ==
  [][ /\ \A i \in Inv :
           /\ C2_Refused(tb[i], tb'[i])
           /\ (tb'[i] # tb[i] /\ tb[i].pc \in BeforeSelection) =>
                 /\ UNCHANGED <<isGenerating, inputBox>>
                 /\ tb'[i].diffLog = <<>> /\ tb'[i].sent = <<>>
           /\ (tb[i].pc = "return" /\ tb'[i] # tb[i]) => tb'[i].pc = "done"
      /\ C2_Refused(pn, pn')
      /\ (pn.pc = "getRepo" /\ pn'.outcome = "NoChanges") =>
            /\ pn'.posted = <<"error">>
            /\ wv'.result = <<"Error:", " ", "No changes detected (staged or working tree).">>
      /\ (pn.pc = "return" /\ pn' # pn) => pn' = Fresh
    ]_vars

\* C2: a toolbar invocation found both lists empty, after an earlier one had filled the
\* commit-message field
C2_Witness ==
  \E i \in Inv :
    /\ tb[i].pc = "return" /\ tb[i].outcome = "NoChanges"
    /\ tb[i].repo /\ tb[i].seenIndex = <<>> /\ tb[i].seenWorking = <<>>
    /\ ~isGenerating
    /\ inputBox = <<"feat: add x">>

\* C3: when the diff of every file of a non-empty change set is empty (binary files
\* only), the invocation fails with the empty-diff error and makes no remote call.
C3_EmptyDiffNoRemoteCall ==
  \A r \in Invocations :
    (/\ r.changes # <<>>
     /\ Len(r.diffs) = Len(r.changes)
     /\ \A k \in 1..Len(r.diffs) : r.diffs[k] = <<>>) =>
      /\ r.outcome = "EmptyDiff"
      /\ r.sent = <<>>

\* C4: when the endpoint answers a toolbar invocation's request with 401 or 403, the
\* invocation reports a remote error carrying the body's error message, and the stored
\* key is gone from the secret store when the invocation cleans up.
C4_AuthFailureClearsKey ==
  \A i \in Inv :
    (tb[i].pc = "finallyIcon" /\ tb[i].status \in {401, 403}) =>
      /\ tb[i].outcome = "RemoteError"
      /\ tb[i].status = 403 => tb[i].shown = <<"Groq API Error:", " ", "invalid key">>
      /\ secret = Undef

\* C5: a successful generation goes, trimmed, to exactly one place: a toolbar invocation
\* writes it to the provider's commit-message field and posts nothing to the panel; a
\* panel invocation posts it as one `result` message and leaves the field alone.
C5_SuccessRouting ==
  [][ /\ \A i \in Inv :
           /\ (tb[i].pc = "fetch" /\ tb'[i].outcome = "Success") =>
                 /\ inputBox' = Trim(tb'[i].content)
                 /\ Truthy(inputBox')
           /\ tb'[i] # tb[i] => tb'[i].posted = <<>> /\ UNCHANGED <<wv, saved>>
      /\ (pn.pc = "fetch" /\ pn'.outcome = "Success") =>
            /\ pn'.posted = <<"loading", "result">>
            /\ wv'.result = Trim(pn'.content)
            /\ Truthy(wv'.result)
      /\ pn' # pn => UNCHANGED inputBox
      /\ (pn' # pn /\ pn'.pc # "idle" /\ pn'.outcome # "Success") =>
            \A k \in 1..Len(pn'.posted) : pn'.posted[k] # "result"
    ]_vars

\* C5: the endpoint's " feat: add x\n" is in the commit-message field as "feat: add x"
C5_Witness ==
  \E i \in Inv :
    /\ tb[i].pc = "successGenerating"
    /\ tb[i].content = <<" ", "feat: add x", "\n">>
    /\ inputBox = <<"feat: add x">>

\* a message that is absent, or blank after trimming
BlankText(m) == m = Undef \/ \A k \in 1..Len(m) : m[k] \in WS

\* C6, as stated: no call of repo.commit for an absent or blank message, none when the
\* provider reports zero staged changes, and in every other case exactly one call, with
\* the trimmed message.
C6_CommitInEveryOtherCase ==
  cm.pc \in {"commit", "return"} =>
    IF BlankText(cm.message) \/ (cm.repo /\ cm.seenIndex = <<>>)
      THEN cm.committed = <<>>
      ELSE cm.committed = <<Trim(cm.message)>>

\* C6, amended: no call of repo.commit for an absent or blank message, none when no
\* repository is available, none when the repository reports zero staged changes; in
\* every other case exactly one call, with the trimmed message.
C6_CommitRefusals ==
  cm.pc \in {"commit", "return"} =>
    IF BlankText(cm.message) \/ ~cm.repo \/ cm.seenIndex = <<>>
      THEN cm.committed = <<>>
      ELSE cm.committed = <<Trim(cm.message)>>

\* C6: " fix: y\n" was committed as "fix: y", once
C6_Witness ==
  /\ cm.pc = "commit"
  /\ cm.message = <<" ", "fix: y", "\n">>
  /\ cm.seenIndex # <<>>
  /\ cm.committed = <<<<"fix: y">>>>

\* the text of C7: for each file in order, the header line of the file, then its diff
RECURSIVE Aggregated(_, _)
Aggregated(paths, diffs) ==
  IF paths = <<>> THEN <<>>
  ELSE <<"\n", "--- File:", " ", Head(paths), " ", "---", "\n">> \o Head(diffs)
         \o Aggregated(Tail(paths), Tail(diffs))

\* C7: the text sent to the endpoint is, for the files of the change set in the
\* provider's order, "\n--- File: <path> ---\n" followed by the file's diff, concatenated;
\* the result of a generation is the returned content without its leading and trailing
\* whitespace.
C7_AggregatedText ==
  /\ \A r \in Invocations :
       /\ r.pc = "request" =>
            /\ Len(r.diffs) = Len(r.changes)
            /\ r.sent = <<[key |-> r.apiKey, diff |-> Aggregated(r.changes, r.diffs)]>>
       /\ (r.changes = <<"a.ts">> /\ r.diffs = <<<<"+x">>>>) =>
            r.sent[1].diff = <<"\n", "--- File:", " ", "a.ts", " ", "---", "\n", "+x">>
  /\ \A i \in Inv :
       (tb[i].pc = "successGenerating" /\ tb[i].content = <<" ", "feat: add x", "\n">>) =>
         inputBox = <<"feat: add x">>

\* C7: two files, the second binary: both headers are sent, in the provider's order
C7_Witness ==
  \E i \in Inv :
    /\ tb[i].pc = "request"
    /\ tb[i].changes = <<"a.ts", "bin.png">>
    /\ tb[i].diffs = <<<<"+x">>, <<>>>>
    /\ tb[i].sent[1].diff = <<"\n", "--- File:", " ", "a.ts", " ", "---", "\n", "+x",
                              "\n", "--- File:", " ", "bin.png", " ", "---", "\n">>

\* C8: in every invocation of either flow made while the override variable is non-empty,
\* the variable being read anew each time, generation goes on with the override as the
\* key: the toolbar flow does not prompt and does not use the stored key, the panel flow
\* does not use the typed key, and a click on the panel's Generate button is not turned
\* away for want of a key, also when the variable was set after the panel was rendered.
C8_OverridePrecedence ==
  [][ /\ \A i \in Inv :
           /\ (~InFlight(tb[i]) /\ tb'[i].pc = "getStoredApiKey") =>
                 tb'[i].overrideKey = env
           /\ (tb[i].pc = "getStoredApiKey" /\ tb'[i] # tb[i]
                 /\ Truthy(OptTrim(tb[i].overrideKey))) =>
                 /\ tb'[i].pc = "getRepo"
                 /\ tb'[i].apiKey = tb[i].overrideKey
                 /\ ~tb'[i].prompted
      /\ (~InFlight(pn) /\ pn' # pn /\ Truthy(OptTrim(env))) =>
            /\ pn'.pc = "getRepo"
            /\ pn'.apiKey = env
      /\ (wv.resolved /\ wv' # wv /\ Truthy(OptTrim(env))) =>
            wv'.result # <<"Please enter an API Key first.">>
    ]_vars

\* C9: with no override and no stored key, a prompt that is cancelled or answered with
\* nothing ends the toolbar invocation with the key-required warning and nothing else:
\* nothing is stored, the provider is not asked for its change lists, no diff and no
\* request is made, and the flags, the icon and the commit-message field stay as they were.
C9_PromptCancelled ==
  [][ \A i \in Inv :
        /\ (tb[i].pc = "showInputBox" /\ tb'[i] # tb[i] /\ tb'[i].input \in {Undef, <<>>}) =>
              /\ tb'[i].pc = "return"
              /\ tb'[i].outcome = "Cancelled"
              /\ tb'[i].shown = <<"API key is required to generate commit message.">>
              /\ ~tb'[i].repo /\ tb'[i].diffLog = <<>> /\ tb'[i].sent = <<>>
              /\ UNCHANGED <<secret, inputBox, isGenerating, generatingIcon, isSuccess,
                             ctxSet, iconIndex, timers>>
        /\ (tb[i].pc = "return" /\ tb[i].outcome = "Cancelled" /\ tb'[i] # tb[i]) =>
              /\ tb'[i].pc = "done"
              /\ UNCHANGED <<secret, inputBox, isGenerating, generatingIcon, isSuccess,
                             ctxSet, iconIndex, timers>>
    ]_vars

\* C9: the prompt was cancelled; nothing is stored
C9_Witness ==
  \E i \in Inv :
    /\ tb[i].pc = "return" /\ tb[i].outcome = "Cancelled"
    /\ tb[i].prompted /\ tb[i].input = Undef
    /\ secret = Undef

\* C10: a key the user gave at the prompt is in the secret store (the store not having
\* failed) before the provider is asked for anything, so that the next invocation reads
\* it from the store and does not prompt.
C10_PromptedKeyRemembered ==
  \A i \in Inv :
    (tb[i].pc = "getRepo" /\ tb[i].prompted /\ ~tb[i].storeThrew) =>
      /\ ~MissingKey(GetStoredApiKey(secret, FALSE))
      /\ GetStoredApiKey(secret, FALSE) = Trim(tb[i].apiKey)

\* C11: every toolbar invocation, whatever its outcome, comes to its end, provided its
\* awaited calls return; when no invocation is running the generating flag is false and
\* the generating icon is -1; the flag is never stuck at true and the icon never stuck
\* at a rotating value.
C11_FlagNotStuck ==
  /\ []((\A i \in Inv : ~InFlight(tb[i])) => (~isGenerating /\ generatingIcon = -1))
  /\ \A i \in Inv : InFlight(tb[i]) ~> (tb[i].pc = "done")
  /\ isGenerating ~> ~isGenerating
  /\ (generatingIcon # -1) ~> (generatingIcon = -1)

\* C11: an invocation that had set the flag ended in a remote error; the flag is false
\* and the icon -1 again
C11_Witness ==
  /\ \A i \in Inv : ~InFlight(tb[i])
  /\ \E i \in Inv : tb[i].pc = "done" /\ tb[i].outcome = "RemoteError"
  /\ "isGenerating" \in ctxSet /\ "generatingIcon" \in ctxSet
  /\ ~isGenerating /\ generatingIcon = -1

\* C12: when the handler of a `generate` signal returns, it has posted exactly one
\* terminal signal, `result` or `error` (the signal that re-enables the Generate button
\* and hides the loader), on every path, also when no Git extension or repository is
\* available.
C12_OneTerminalSignal ==
  pn.pc = "return" =>
    Cardinality({k \in 1..Len(pn.posted) : pn.posted[k] \in {"result", "error"}}) = 1

\* C13: no two toolbar invocations are between the start of their diff collection and
\* the answer of their remote call at the same time: a second trigger during a
\* generation starts no other diff collection or remote call.
C13_SingleFlight ==
  Cardinality({i \in Inv : tb[i].pc \in {"diff", "request", "fetch"}}) <= 1

\* C14: the success flag, once set by a successful toolbar generation, stays true for
\* that invocation's display time: it goes false only when the timer started by the
\* latest successful invocation fires, that is, when no success timer is left pending.
C14_SuccessDisplay ==
  [][ (isSuccess /\ ~isSuccess') => timers' = 0 ]_vars

\* the key tokens that begin with gsk_
GskTokens == {"gsk_k", "gsk_env", "gsk_p"}

\* C15: no request is made, from either flow, with a key that does not begin with gsk_.
C15_KeyFormatValidated ==
  \A r \in Invocations :
    r.sent # <<>> => (r.sent[1].key # <<>> /\ Head(r.sent[1].key) \in GskTokens)

\* the diff of some file of the invocation's change set could not be read
DiffFailed(r) == \E k \in 1..Len(r.diffs) : r.diffs[k] = DiffFails

\* C16: when the diff of one file fails, the aggregation is abandoned: the failing diff
\* is the last one asked for, no request is sent, the diff-read error is reported (shown
\* by the toolbar flow, posted as `error` by the panel flow); the toolbar invocation
\* leaves the commit-message field as it was and its finally block puts the generating
\* flag back to false.
C16_DiffFailureAborts ==
  /\ [](\A r \in Invocations :
          DiffFailed(r) =>
            /\ \A k \in 1..Len(r.diffs) : r.diffs[k] = DiffFails => k = Len(r.diffs)
            /\ Len(r.diffLog) = Len(r.diffs)
            /\ r.sent = <<>>
            /\ r.outcome = "DiffReadFailure"
            /\ r.shown = <<"Error reading git diffs.">>)
  /\ [](DiffFailed(pn) => (pn.pc = "return" /\ pn.posted[Len(pn.posted)] = "error"))
  /\ [][\A i \in Inv :
          (tb[i].outcome = "DiffReadFailure" /\ tb'[i] # tb[i] /\ tb[i].pc # "done") =>
            /\ inputBox' = inputBox
            /\ tb'[i].outcome = "DiffReadFailure"
            /\ tb[i].pc = "finally" => ~isGenerating']_vars

\* the diff of the first of two files has failed in a toolbar invocation, which is about
\* to run its finally block: the second diff was never asked for
C16_Witness ==
  \E i \in Inv :
    /\ tb[i].pc = "finally" /\ tb[i].outcome = "DiffReadFailure"
    /\ Len(tb[i].changes) = 2 /\ tb[i].diffs = <<DiffFails>> /\ Len(tb[i].diffLog) = 1
    /\ isGenerating

\* the invocation has its answer from the endpoint (fetch itself did not reject)
Answered(r) == r.resp # NoResp /\ ~r.resp.net

\* the error the flows report for a callGroq error with message msg
ReportsError(r, msg) ==
  r.outcome = "RemoteError" /\ r.shown = <<"Groq API Error:", " ">> \o msg

\* C17: the remote call classifies the response in this order: a non-success status is
\* an error carrying the body's error message when one can be read, else
\* "HTTP <status>: <reason>"; a success status with an error field is an error (with the
\* field's message when it has one); a success status whose text is missing or empty
\* after trimming is the 'empty response' error; only otherwise the call succeeds, with
\* the trimmed text.  So the text written to the commit-message field or posted as
\* `result` is never empty or whitespace-only.
C17_ResponseClassification ==
  /\ [](\A r \in Invocations :
          Answered(r) =>
            LET a == r.resp
                readable == a.json /\ a.hasError /\ a.errMsg # Undef /\ a.errMsg # <<>>
                blank == a.content = Undef \/ Trim(a.content) = <<>>
            IN  /\ (a.status # 200 /\ readable) => ReportsError(r, a.errMsg)
                /\ (a.status # 200 /\ ~readable) => ReportsError(r, <<StatusText(a.status)>>)
                /\ (a.status = 200 /\ a.json /\ a.hasError) =>
                     /\ r.outcome = "RemoteError"
                     /\ a.errMsg # Undef => ReportsError(r, a.errMsg)
                /\ (a.status = 200 /\ a.json /\ ~a.hasError /\ blank) =>
                     ReportsError(r, <<"API returned empty response.">>)
                /\ (a.status = 200 /\ a.json /\ ~a.hasError /\ ~blank) =>
                     r.outcome = "Success")
  /\ [][ /\ inputBox' # inputBox =>
              /\ inputBox' # <<>> /\ Trim(inputBox') = inputBox'
              /\ \E i \in Inv : tb[i].pc = "fetch" /\ Answered(tb'[i])
                                /\ inputBox' = Trim(tb'[i].resp.content)
         /\ (pn.pc = "fetch" /\ pn'.pc # "fetch" /\ pn'.posted[Len(pn'.posted)] = "result") =>
              /\ wv'.result # <<>> /\ Trim(wv'.result) = wv'.result
              /\ Answered(pn') /\ wv'.result = Trim(pn'.resp.content) ]_vars

\* a success status whose body has both an error field and a text was answered to a
\* toolbar invocation, and reported as that error
C17_Witness ==
  \E i \in Inv :
    /\ Answered(tb[i])
    /\ tb[i].resp.status = 200 /\ tb[i].resp.hasError /\ tb[i].resp.content = <<"feat: add x">>
    /\ tb[i].shown = <<"Groq API Error:", " ", "quota">>

\* C18: in the commit step, a successful commit notifies the user and clears the draft
\* (the result text and its persisted copy are empty, the commit button disabled); a
\* refused or failed commit shows an error and leaves the result text, its persisted
\* copy and the commit button as they were.
C18_CommitOutcome ==
  [][ (cm'.pc = "return" /\ cm.pc # "return") =>
        IF cm'.outcome = "Committed"
          THEN /\ cm'.shown = <<"Commit successful!">>
               /\ cm'.posted = <<"success">>
               /\ wv'.result = <<>> /\ saved'.result = <<>> /\ wv'.commitDisabled
          ELSE /\ cm'.outcome \in {"EmptyMessage", "NoRepo", "NothingStaged", "CommitFailure"}
               /\ cm'.shown # <<>> /\ cm'.posted = <<>>
               /\ wv'.result = wv.result /\ saved' = saved
               /\ wv'.commitDisabled = wv.commitDisabled ]_vars

\* a commit of a generated draft has succeeded: the draft and its persisted copy are
\* gone and the commit button is disabled
C18_Witness ==
  /\ cm.pc = "return" /\ cm.outcome = "Committed"
  /\ cm.committed = <<<<"feat: add x">>>>
  /\ wv.result = <<>> /\ saved.set /\ saved.result = <<>> /\ wv.commitDisabled

\* C19: the secret store changes only (a) when a toolbar invocation stores the key just
\* entered at its prompt, or (b) when the key is cleared after an authentication
\* failure; steps of the panel generation, of the commit step, and of toolbar
\* invocations that did not prompt leave it as it was.
C19_SecretFrame ==
  [][ /\ secret' # secret =>
           \/ \E i \in Inv : /\ tb[i].pc = "storeApiKey" /\ tb'[i].pc # "storeApiKey"
                             /\ tb[i].prompted /\ tb[i].apiKey = tb[i].input
                             /\ secret' = Trim(tb[i].input)
           \/ \E i \in Inv : /\ tb[i].pc = "fetch" /\ tb'[i].status \in {401, 403}
                             /\ secret' = Undef
      /\ (pn' # pn \/ cm' # cm \/ wv' # wv \/ toHost' # toHost) => secret' = secret
      /\ \A i \in Inv : (tb'[i] # tb[i] /\ ~tb[i].prompted) => secret' = secret ]_vars

\* a toolbar invocation has stored the key entered at its prompt, trimmed, where none
\* was stored before
C19_Witness ==
  \E i \in Inv :
    /\ tb[i].pc = "getRepo" /\ tb[i].prompted /\ ~tb[i].storeThrew
    /\ tb[i].input = <<" ", "gsk_k">>
    /\ secret = <<"gsk_k">>

\* C20: a failure of the secret store never ends a toolbar invocation.  A read that
\* throws is treated as an absent key: the invocation goes on with a usable override,
\* and prompts otherwise.  A write that throws is not shown to the user and changes
\* nothing in the store: the invocation goes on to the repository lookup with the key
\* entered, which is the key of the request it sends.
C20_StoreFailuresTolerated ==
  /\ [][\A i \in Inv :
          /\ (tb[i].pc = "getStoredApiKey" /\ tb'[i].pc # "getStoredApiKey"
              /\ tb'[i].readThrew) =>
               /\ tb'[i].outcome = "none" /\ tb'[i].shown = <<>>
               /\ IF tb[i].overrideKey # Undef /\ Trim(tb[i].overrideKey) # <<>>
                    THEN tb'[i].pc = "getRepo" /\ tb'[i].apiKey = tb[i].overrideKey
                    ELSE tb'[i].pc = "showInputBox"
          /\ (tb[i].pc = "storeApiKey" /\ tb'[i].pc # "storeApiKey"
              /\ tb'[i].storeThrew) =>
               /\ tb'[i].outcome = "none" /\ tb'[i].shown = <<>>
               /\ tb'[i].pc = "getRepo" /\ tb'[i].apiKey = tb[i].input
               /\ secret' = secret]_vars
  /\ [](\A i \in Inv :
          (tb[i].prompted /\ tb[i].sent # <<>>) => tb[i].sent[1].key = tb[i].input)

\* the read of the stored key threw, the user was prompted, the write of the entered
\* key threw as well, and the invocation goes on with the entered key
C20_Witness ==
  \E i \in Inv :
    /\ tb[i].pc = "getRepo" /\ tb[i].readThrew /\ tb[i].storeThrew
    /\ tb[i].prompted /\ tb[i].apiKey = <<"gsk_k">> /\ tb[i].input = <<"gsk_k">>
    /\ secret = Undef

\* C21: the toolbar flow writes the commit-message field only on success: the only step
\* of a toolbar invocation that changes the field is the one that receives a successful
\* answer, so an invocation that ends cancelled, without repository, without changes,
\* with a diff read failure, an empty diff or a remote error leaves the field as it
\* found it.
C21_FieldWrittenOnlyOnSuccess ==
  [][ /\ \A i \in Inv :
           (tb'[i] # tb[i] /\ ~(tb[i].pc = "fetch" /\ tb'[i].outcome = "Success")) =>
             inputBox' = inputBox
      /\ \A i \in Inv :
           (tb'[i] # tb[i] /\ tb'[i].pc \in {"return", "finally"}
            /\ tb[i].pc \notin {"return", "finally"} /\ tb'[i].outcome # "Success") =>
             /\ tb'[i].outcome \in {"Cancelled", "NoRepo", "NoChanges", "DiffReadFailure",
                                    "EmptyDiff", "RemoteError"}
             /\ inputBox' = inputBox
      /\ inputBox' # inputBox =>
           \E i \in Inv : tb[i].pc = "fetch" /\ tb'[i].outcome = "Success" ]_vars

\* an invocation has ended with a remote error and the field still holds the message an
\* earlier successful invocation wrote
C21_Witness ==
  /\ \E i \in Inv : tb[i].pc = "done" /\ tb[i].outcome = "RemoteError"
  /\ \A i \in Inv : ~InFlight(tb[i])
  /\ inputBox = <<"feat: add x">>

\* C22: the generating flag is true whenever some toolbar invocation is collecting diffs
\* or awaiting the remote call, whatever the interleaving of the invocations: the reset
\* at the end of one invocation does not put the flag to false while another one is
\* still at work.
C22_FlagCoversEveryRequest ==
  (\E i \in Inv : tb[i].pc \in {"diff", "request", "fetch"}) => isGenerating

\* a text the page itself wrote into the result area as an error or a notice
PanelNotice(text) ==
  \/ text = <<"Please enter an API Key first.">>
  \/ Len(text) >= 2 /\ SubSeq(text, 1, 2) = <<"Error:", " ">>

\* C23: the commit button of the panel is never enabled while the result area holds an
\* error or notice text of the page, so such a text cannot be sent as a commit message
\* by a click.
C23_NoticeNotCommittable ==
  (wv.resolved /\ PanelNotice(wv.result)) => wv.commitDisabled

\* C24: in a toolbar invocation that prompted for a key and stored it without a failure
\* of the store, the key the invocation goes on with, which is the key of its request,
\* is the key the next invocation reads from the store, for every key entered, keys
\* with surrounding whitespace and whitespace-only keys included.
C24_SentKeyIsStoredKey ==
  \A i \in Inv :
    (tb[i].pc = "getRepo" /\ tb[i].prompted /\ ~tb[i].storeThrew) =>
      GetStoredApiKey(secret, FALSE) = tb[i].apiKey

====
